---- MODULE Spec2Model ----
(***************************************************************************)
(* Model of the Super30 text-processing API (src/app.py).                  *)
(*                                                                         *)
(* Strings are sequences of one-character strings.  JSON values are tagged *)
(* records [t |-> tag, v |-> payload]; a JSON object's payload is a        *)
(* function from its keys to JSON values, so "key in dict" is membership   *)
(* in DOMAIN.                                                              *)
(***************************************************************************)
EXTENDS Integers, Sequences, FiniteSets, TLC

VARIABLES
    sanIn,      \* text handed to remove_emojis_and_special_chars
    sanOut,     \* what it returned (None before the call)
    body,       \* parsed JSON body of a POST /process-json request
    lsaRaises,  \* the texts on which the external LSA summarizer raises
    resp,       \* response of POST /process-json (None before the call)
    calls,      \* sentences_count of every process_text call the handler made
    fileRes,    \* outcome of the CLI's main() (None before the run)
    fs,         \* the filesystem: file name -> content, for the files that exist
    pc,         \* per upload request: position in upload_json_file
    upload,     \* per upload request: the uploaded file (name, content)
    result,     \* per upload request: process_json_file's output_data, then its result
    outputData, \* per upload request: what the handler read back from temp_output.json
    uresp       \* per upload request: the response returned

vars == <<sanIn, sanOut, body, lsaRaises, resp, calls, fileRes,
          fs, pc, upload, result, outputData, uresp>>

None == [t |-> "none"]

\* an optional field or parameter that is not there
Absent == [t |-> "absent"]

----------------------------------------------------------------------------
(* Bounds of the model *)

\* longest text handed to the sanitizer
MaxLen == 4
\* longest list in a /process-json body or an input file
MaxItems == 3
\* longest list of long texts
MaxLongItems == 2
\* how far around the fallback's limit the lengths of the long texts go
Margin == 1
\* number of POST /upload-json requests the server handles at the same time
NumRequests == 2

----------------------------------------------------------------------------
(* JSON values *)

Num(n) == [t |-> "num", v |-> n]
Str(s) == [t |-> "str", v |-> s]
Obj(f) == [t |-> "obj", v |-> f]
Lst(q) == [t |-> "list", v |-> q]
Null == [t |-> "null"]

\* An empty dict: a function with the empty domain.
EmptyObj == [k \in {} |-> Null]

\* dict d extended (or overwritten) at key k
Put(d, k, x) == [j \in (DOMAIN d) \cup {k} |-> IF j = k THEN x ELSE d[j]]

\* the characters of the key 'description', for Python's substring test
DescriptionChars == <<"d", "e", "s", "c", "r", "i", "p", "t", "i", "o", "n">>

\* s contains sub as a contiguous run (Python: sub in s, for two str)
Contains(s, sub) ==
    \E i \in 0..(Len(s) - Len(sub)) : SubSeq(s, i + 1, i + Len(sub)) = sub

\* Python's  'description' in x : a key test on a dict, a substring test on a
\* str, an element test on a list (no element is the str 'description' here),
\* and a TypeError on a number or None.
InDescription(x) ==
    CASE x.t = "obj"  -> IF "description" \in DOMAIN x.v THEN "yes" ELSE "no"
      [] x.t = "str"  -> IF Contains(x.v, DescriptionChars) THEN "yes" ELSE "no"
      [] x.t = "list" -> "no"
      [] OTHER        -> "TypeError"

----------------------------------------------------------------------------
(* TextProcessor.remove_emojis_and_special_chars *)

\* unicodedata.category of the characters the model uses
Category(c) ==
    CASE c \in {"a", "b"}   -> "Ll"
      [] c = " "            -> "Zs"
      [] c \in {"\t", "\n"} -> "Cc"
      [] c = "$"            -> "Sc"
      [] c = "+"            -> "Sm"
      [] c = "^"            -> "Sk"
      [] c = "S"            -> "Cs"    \* "S" stands for a lone surrogate, U+D800
      [] OTHER              -> "Po"    \* "." "," "@" "#"

\* \w of a str pattern: alphanumerics and the underscore
IsWord(c) == Category(c) \in {"Ll", "Lu", "Nd"} \/ c = "_"

\* \s of a str pattern, and what str.strip() strips
IsSpace(c) == c \in {" ", "\t", "\n"}

\* the punctuation the character class of line 27 lets through
AllowedPunct == {".", ",", "!", "?", ";", ":", "-", "'", "\"", "(", ")"}

SymbolCategories == {"So", "Sm", "Sk", "Sc"}

KeepNonSymbol(c) == Category(c) \notin SymbolCategories

KeepAllowed(c) == IsWord(c) \/ IsSpace(c) \/ c \in AllowedPunct

\* line 24: drop the characters of categories So, Sm, Sk, Sc
DropSymbols(text) == SelectSeq(text, KeepNonSymbol)

\* line 27: re.sub(r'[^\w\s.,!?;:\-\'"()]', '', text)
DropSpecial(text) == SelectSeq(text, KeepAllowed)

\* re.sub(r'\s+', ' ', text): every maximal whitespace run becomes one space
\* (the first character of each run is kept, as a space)
CollapseRuns(text) ==
    LET Kept(i) == ~IsSpace(text[i]) \/ i = 1 \/ ~IsSpace(text[i - 1])
        at == SelectSeq([i \in 1..Len(text) |-> i], Kept)
    IN  [k \in 1..Len(at) |-> IF IsSpace(text[at[k]]) THEN " " ELSE text[at[k]]]

\* the first position from i on that holds no whitespace (Len(text) + 1 if none)
RECURSIVE FirstInk(_, _)
FirstInk(text, i) ==
    IF i > Len(text) \/ ~IsSpace(text[i]) THEN i ELSE FirstInk(text, i + 1)

\* the last position up to i that holds no whitespace (0 if none)
RECURSIVE LastInk(_, _)
LastInk(text, i) ==
    IF i < 1 \/ ~IsSpace(text[i]) THEN i ELSE LastInk(text, i - 1)

\* str.strip(): without the leading and the trailing whitespace
Strip(text) == SubSeq(text, FirstInk(text, 1), LastInk(text, Len(text)))

\* line 30: re.sub(r'\s+', ' ', text).strip()
CollapseWhitespace(text) == Strip(CollapseRuns(text))

\* A sanitizer that normalises whitespace before it removes characters.
SanitizeCollapseFirst(text) == DropSpecial(DropSymbols(CollapseWhitespace(text)))

remove_emojis_and_special_chars(text) ==
    CollapseWhitespace(DropSpecial(DropSymbols(text)))

----------------------------------------------------------------------------
(* TextProcessor.summarize_text and TextProcessor.process_text *)

\* length above which the fallback of summarize_text truncates
FallbackLimit == 200

Ellipsis == <<".", ".", ".">>

\* The external summarizer (sumy's parser, tokenizer and LsaSummarizer), seen
\* from summarize_text: on the texts in lsaRaises, and on a count that is not
\* a number, it raises; otherwise it returns sentences of the text, all of
\* them for a count of at least 1 and none for a smaller one.
LsaSummarizer(text, sentences_count) ==
    IF text \in lsaRaises \/ sentences_count.t # "num"
    THEN [raised |-> TRUE]
    ELSE [raised |-> FALSE,
          value  |-> IF sentences_count.v >= 1 THEN text ELSE <<>>]

\* line 49: text[:200] + "..." if len(text) > 200 else text
Fallback(text) ==
    IF Len(text) > FallbackLimit
    THEN SubSeq(text, 1, FallbackLimit) \o Ellipsis
    ELSE text

\* lines 36-46 without the except clause: the summarizer's exception escapes
summarize_text_uncaught(text, sentences_count) == LsaSummarizer(text, sentences_count)

\* lines 36-49: the try block and its except clause
summarize_text(text, sentences_count) ==
    LET r == LsaSummarizer(text, sentences_count)
    IN  IF r.raised
        THEN [raised |-> FALSE, value |-> Fallback(text)]
        ELSE [raised |-> FALSE, value |-> r.value]

\* lines 51-66; a text that is not a str raises TypeError at line 24
process_text(text, sentences_count) ==
    IF text.t # "str"
    THEN [raised |-> TRUE]
    ELSE LET cleaned_text == remove_emojis_and_special_chars(text.v)
             summary == summarize_text(cleaned_text, sentences_count)
         IN  IF summary.raised
             THEN [raised |-> TRUE]
             ELSE [raised |-> FALSE,
                   value  |-> [original_text            |-> text.v,
                               cleaned_text             |-> cleaned_text,
                               summary                  |-> summary.value,
                               character_count_original |-> Len(text.v),
                               character_count_cleaned  |-> Len(cleaned_text),
                               character_count_summary  |-> Len(summary.value)]]

\* dict.get(key, default)
Get(d, k, default) == IF k \in DOMAIN d THEN d[k] ELSE default

----------------------------------------------------------------------------
(* POST /process-json *)

DefaultSentences == 3

\* line 211, id given by the number of records accepted so far
JsonItemIdByCount(item, i, results) == Get(item.v, "id", Num(Len(results) + 1))

\* line 211, with the fallback of the single-object branch (line 216)
JsonItemIdOne(item, i, results) == Get(item.v, "id", Num(1))

\* line 211: item.get('id', i + 1); the model's i counts from 1, so the
\* enumerate index plus one is i itself
JsonItemId(item, i, results) == Get(item.v, "id", Num(i))

\* lines 208-213: the for loop from element i on.  acc holds the records and
\* the sentences_count of every process_text call so far.
RECURSIVE JsonLoop(_, _, _, _)
JsonLoop(items, i, sentences_count, acc) ==
    IF i > Len(items) THEN acc
    ELSE LET item == items[i]
             has  == InDescription(item)
         IN  CASE has = "TypeError" -> [acc EXCEPT !.raised = TRUE]
               [] has = "no" -> JsonLoop(items, i + 1, sentences_count, acc)
               [] OTHER ->
                    IF item.t # "obj"
                    THEN [acc EXCEPT !.raised = TRUE]   \* item['description'] on a str
                    ELSE LET p == process_text(item.v["description"], sentences_count)
                             called == Append(acc.calls, sentences_count)
                         IN  IF p.raised
                             THEN [acc EXCEPT !.raised = TRUE, !.calls = called]
                             ELSE JsonLoop(items, i + 1, sentences_count,
                                    [acc EXCEPT
                                       !.calls = called,
                                       !.results = Append(@,
                                          Put(Put(p.value, "id", JsonItemId(item, i, acc.results)),
                                              "original_id", Get(item.v, "id", Null)))])

\* the count process_json_data hands to process_text: line 202 as written
JsonSentencesCount(data) == Get(data, "sentences_count", Num(DefaultSentences))

BadRequest(msg) == [status |-> 400, error |-> msg]

ServerError(prefix) == [status |-> 500, error |-> prefix]

\* lines 224-239
JsonOk(results, sentences_count) ==
    [status |-> 200,
     success |-> TRUE,
     data |-> [processed_items |-> results,
               total_items     |-> Len(results),
               processing_info |-> [sentences_count |-> sentences_count]]]

\* lines 191-244: the handler, on the parsed body (a JSON object).  Returns
\* the response and the process_text calls made.
process_json_data(data) ==
    LET start == [raised |-> FALSE, results |-> <<>>, calls |-> <<>>]
    IN
    IF data = EmptyObj \/ "data" \notin DOMAIN data
    THEN [resp |-> BadRequest("Missing 'data' field in request body"), calls |-> <<>>]
    ELSE
      LET input_data == data["data"]
          sentences_count == JsonSentencesCount(data)
      IN  IF input_data.t = "list"
          THEN LET r == JsonLoop(input_data.v, 1, sentences_count, start)
               IN  IF r.raised
                   THEN [resp |-> ServerError("Processing failed"), calls |-> r.calls]
                   ELSE [resp |-> JsonOk(r.results, sentences_count), calls |-> r.calls]
          ELSE IF input_data.t = "obj" /\ "description" \in DOMAIN input_data.v
          THEN LET p == process_text(input_data.v["description"], sentences_count)
               IN  IF p.raised
                   THEN [resp |-> ServerError("Processing failed"),
                         calls |-> <<sentences_count>>]
                   ELSE [resp |-> JsonOk(<<Put(p.value, "id",
                                              Get(input_data.v, "id", Num(1)))>>,
                                         sentences_count),
                         calls |-> <<sentences_count>>]
          ELSE [resp |-> BadRequest("Input data must contain 'description' field"),
                calls |-> <<>>]

----------------------------------------------------------------------------
(* process_json_file and the CLI *)

\* line 85: item.get('id', len(results) + 1)
FileItemId(item, results) == Get(item.v, "id", Num(Len(results) + 1))

\* lines 82-86: the for loop from element i on
RECURSIVE FileLoop(_, _, _)
FileLoop(items, i, acc) ==
    IF i > Len(items) THEN acc
    ELSE LET item == items[i]
             has  == InDescription(item)
         IN  CASE has = "TypeError" -> [acc EXCEPT !.raised = TRUE]
               [] has = "no" -> FileLoop(items, i + 1, acc)
               [] OTHER ->
                    IF item.t # "obj"
                    THEN [acc EXCEPT !.raised = TRUE]
                    ELSE LET p == process_text(item.v["description"], Num(DefaultSentences))
                         IN  IF p.raised
                             THEN [acc EXCEPT !.raised = TRUE]
                             ELSE FileLoop(items, i + 1,
                                    [acc EXCEPT !.results = Append(@,
                                       Put(p.value, "id", FileItemId(item, acc.results)))])

\* lines 95-104, with the total taken from the input instead of the results
FileOutputCountsInput(results, input_data) ==
    [processed_items |-> results,
     total_items     |-> IF input_data.t = "list" THEN Len(input_data.v) ELSE 1]

\* lines 95-104
FileOutput(results, input_data) ==
    [processed_items |-> results, total_items |-> Len(results)]

\* lines 79-104: from the parsed input to output_data, or an exception
FileCore(input_data) ==
    LET start == [raised |-> FALSE, results |-> <<>>]
    IN
    IF input_data.t = "list"
    THEN LET r == FileLoop(input_data.v, 1, start)
         IN  IF r.raised THEN [raised |-> TRUE]
             ELSE [raised |-> FALSE, value |-> FileOutput(r.results, input_data)]
    ELSE IF input_data.t = "obj" /\ "description" \in DOMAIN input_data.v
    THEN LET p == process_text(input_data.v["description"], Num(DefaultSentences))
         IN  IF p.raised THEN [raised |-> TRUE]
             ELSE [raised |-> FALSE,
                   value  |-> FileOutput(<<Put(p.value, "id",
                                               Get(input_data.v, "id", Num(1)))>>,
                                         input_data)]
    ELSE [raised |-> TRUE]     \* line 92: ValueError

\* file contents: a JSON document, or the start of one (a write that failed)
JsonDoc(v) == [kind |-> "json", value |-> v]

Partial == [kind |-> "partial"]

HasSurrogate(s) == \E i \in 1..Len(s) : s[i] = "S"

\* json.dump(..., ensure_ascii=False) into a utf-8 file: a lone surrogate in a
\* str of output_data makes the write raise UnicodeEncodeError.  The strs
\* that can hold one are original_text and a str id (the sanitizer removes
\* it from cleaned_text and summary).
Encodable(output_data) ==
    \A i \in 1..Len(output_data.processed_items) :
        LET r == output_data.processed_items[i]
        IN  /\ ~HasSurrogate(r.original_text)
            /\ r.id.t = "str" => ~HasSurrogate(r.id.v)

\* lines 75-76: open(input_file) and json.load; then lines 79-104
ReadAndProcess(files, input_file) ==
    IF input_file \notin DOMAIN files THEN [raised |-> TRUE]       \* FileNotFoundError
    ELSE IF files[input_file].kind # "json" THEN [raised |-> TRUE] \* JSONDecodeError
    ELSE FileCore(files[input_file].value)

\* lines 107-108: open(output_file, 'w') creates or truncates the file, and
\* json.dump fills it with the JSON object of output_data or raises part of
\* the way
WriteOutput(files, output_file, output_data) ==
    IF Encodable(output_data)
    THEN [raised |-> FALSE, fs |-> Put(files, output_file, JsonDoc(Obj(output_data)))]
    ELSE [raised |-> TRUE,  fs |-> Put(files, output_file, Partial)]

\* lines 68-125, run without interruption: the files afterwards and the
\* return value (None for every exception)
process_json_file(files, input_file, output_file) ==
    LET r == ReadAndProcess(files, input_file)
    IN  IF r.raised THEN [fs |-> files, ret |-> None]
        ELSE LET w == WriteOutput(files, output_file, r.value)
             IN  IF w.raised THEN [fs |-> w.fs, ret |-> None]
                 ELSE [fs |-> w.fs, ret |-> [t |-> "ok", v |-> r.value]]

\* lines 333-351: the files afterwards and what main() reported
main(files) ==
    IF "input.json" \notin DOMAIN files
    THEN [fs |-> files, out |-> [t |-> "notfound"]]
    ELSE LET r == process_json_file(files, "input.json", "output.json")
         IN  [fs |-> r.fs,
              out |-> IF r.ret.t = "ok" THEN r.ret ELSE [t |-> "failed"]]

----------------------------------------------------------------------------
(* Values the variables of another specification keep *)

NoFiles == [n \in {} |-> Partial]

SanitizerIdle == sanIn = <<>> /\ sanOut = None

BatchIdle ==
    /\ body = EmptyObj
    /\ lsaRaises = {}
    /\ resp = None
    /\ calls = <<>>
    /\ fileRes = None

UploadIdle ==
    /\ pc = <<>>
    /\ upload = <<>>
    /\ result = <<>>
    /\ outputData = <<>>
    /\ uresp = <<>>

----------------------------------------------------------------------------
(* Specification of the sanitizer: a text is sanitized, and the result may   *)
(* be handed to the sanitizer again.                                         *)

SanAlphabet == {"a", " ", "\t", "$", "@", ","}

SanTexts == UNION {[1..n -> SanAlphabet] : n \in 0..MaxLen}

InitSanitize ==
    /\ sanIn \in SanTexts
    /\ sanOut = None
    /\ BatchIdle /\ UploadIdle /\ fs = NoFiles

Sanitize ==
    /\ sanOut.t = "none"
    /\ sanOut' = Str(remove_emojis_and_special_chars(sanIn))
    /\ UNCHANGED <<sanIn, body, lsaRaises, resp, calls, fileRes, fs, pc, upload, result, outputData, uresp>>

Resubmit ==
    /\ sanOut.t = "str"
    /\ sanOut.v # sanIn
    /\ sanIn' = sanOut.v
    /\ sanOut' = None
    /\ UNCHANGED <<body, lsaRaises, resp, calls, fileRes, fs, pc, upload, result, outputData, uresp>>

NextSanitize == Sanitize \/ Resubmit

SpecSanitize == InitSanitize /\ [][NextSanitize]_vars

----------------------------------------------------------------------------
(* Specification of the batch paths: one input, given to POST /process-json  *)
(* as the body's data and to the CLI as input.json.                          *)

ItemDescriptions == {Str(<<"a", "$">>), Str(<<"b">>)}

ItemIds == {Num(2), Str(<<"x">>)}

WithField(d, k, x) == IF x.t = "absent" THEN d ELSE Put(d, k, x)

DictItems ==
    {Obj(WithField(WithField(EmptyObj, "description", d), "id", i)) :
        d \in ItemDescriptions \cup {Absent}, i \in ItemIds \cup {Absent}}

\* a dict whose description is a number, not a str
NumberDescription == Obj(Put(EmptyObj, "description", Num(5)))

Items == DictItems \cup {NumberDescription, Num(5), Str(<<"z">>), Str(DescriptionChars)}

Lists == UNION {[1..n -> Items] : n \in 0..MaxItems}

DataValues ==
    DictItems \cup {NumberDescription, Num(5), Null, Str(<<"z">>)} \cup {Lst(q) : q \in Lists}

SentenceCounts == {Num(2), Num(0), Num(-1), Str(<<"t", "h", "r", "e", "e">>)}

Bodies ==
    {WithField(WithField(EmptyObj, "data", d), "sentences_count", n) :
        d \in DataValues \cup {Absent}, n \in SentenceCounts \cup {Absent}}

InitBatch ==
    /\ body \in Bodies
    /\ lsaRaises \in {{}, {<<"a">>}}
    /\ resp = None
    /\ calls = <<>>
    /\ fileRes = None
    /\ fs = IF "data" \in DOMAIN body
            THEN Put(NoFiles, "input.json", JsonDoc(body["data"]))
            ELSE NoFiles
    /\ SanitizerIdle /\ UploadIdle

ProcessJson ==
    /\ resp.t = "none"
    /\ LET r == process_json_data(body)
       IN  /\ resp' = [t |-> "resp", v |-> r.resp]
           /\ calls' = r.calls
    /\ UNCHANGED <<sanIn, sanOut, body, lsaRaises, fileRes, fs, pc, upload, result, outputData, uresp>>

CliMain ==
    /\ fileRes.t = "none"
    /\ LET r == main(fs)
       IN  /\ fs' = r.fs
           /\ fileRes' = r.out
    /\ UNCHANGED <<sanIn, sanOut, body, lsaRaises, resp, calls, pc, upload, result, outputData, uresp>>

NextBatch == ProcessJson \/ CliMain

SpecBatch == InitBatch /\ [][NextBatch]_vars

----------------------------------------------------------------------------
(* Claims about the batch paths *)

JsonDone == resp.t = "resp"

JsonOkDone == JsonDone /\ resp.v.status = 200

CliOk == fileRes.t = "ok"

HasData == "data" \in DOMAIN body

DataIsList == HasData /\ body["data"].t = "list"

\* an element that is a JSON object with a description field
HasDescriptionField(x) == x.t = "obj" /\ "description" \in DOMAIN x.v

\* the positions of the elements with a description field, in input order
AcceptedPositions(items) ==
    LET Accepts(i) == HasDescriptionField(items[i])
    IN  SelectSeq([i \in 1..Len(items) |-> i], Accepts)

\* the id the specification gives the element at (1-based) position i
ExpectedId(items, i) ==
    IF "id" \in DOMAIN items[i].v THEN items[i].v["id"] ELSE Num(i)

IdsOf(records) == [k \in 1..Len(records) |-> records[k]["id"]]

\* C3: in POST /process-json with a list as data, processed_items holds, in
\* input order, exactly one record per element with a description field and
\* none for the others, and the record of the element at 0-based position i
\* has the element's own id when it has one and i + 1 otherwise.
C3_ListRecords ==
    (JsonOkDone /\ DataIsList) =>
        LET items == body["data"].v
            pos   == AcceptedPositions(items)
            out   == resp.v.data.processed_items
        IN  /\ Len(out) = Len(pos)
            /\ \A k \in 1..Len(pos) :
                  /\ out[k]["original_text"] = items[pos[k]].v["description"].v
                  /\ out[k]["id"] = ExpectedId(items, pos[k])

SpecExampleList ==
    Lst(<<Obj(Put(EmptyObj, "description", Str(<<"a", "$">>))),
          Obj(Put(Put(EmptyObj, "description", Str(<<"b">>)), "id", Str(<<"x">>))),
          Obj(EmptyObj)>>)

C3_Witness ==
    /\ JsonOkDone
    /\ HasData /\ body["data"] = SpecExampleList
    /\ IdsOf(resp.v.data.processed_items) = <<Num(1), Str(<<"x">>)>>
    /\ resp.v.data.total_items = 2

\* C4: for every list input the ids produced by process_json_file equal the
\* ids produced by POST /process-json on the same list (the fallback id in
\* the file path is the position i + 1 in the original sequence).
C4_FileIdsMatchJsonIds ==
    (DataIsList /\ JsonOkDone /\ CliOk) =>
        IdsOf(fileRes.v.processed_items) = IdsOf(resp.v.data.processed_items)

\* a sentences_count that is a positive integer
ValidCount(n) == n.t = "num" /\ n.v >= 1

\* C5: in POST /process-json, when sentences_count is absent or invalid the
\* value passed to process_text for every item and
\* processing_info.sentences_count are 3; when it is a valid positive
\* integer both equal the supplied value.
C5_SentencesCountCoerced ==
    JsonOkDone =>
        LET used == IF "sentences_count" \in DOMAIN body
                       /\ ValidCount(body["sentences_count"])
                    THEN body["sentences_count"]
                    ELSE Num(3)
        IN  /\ resp.v.data.processing_info.sentences_count = used
            /\ \A k \in 1..Len(calls) : calls[k] = used

\* data that is neither an object containing description nor a list of objects
InvalidShape(d) ==
    /\ ~HasDescriptionField(d)
    /\ ~(d.t = "list" /\ \A i \in 1..Len(d.v) : d.v[i].t = "obj")

\* C6: POST /process-json answers 400 "Input data must contain 'description'
\* field" for every request whose data is neither an object containing
\* description nor a list of objects; never 200, never 500.
C6_InvalidShapeIs400 ==
    (JsonDone /\ HasData /\ InvalidShape(body["data"])) =>
        /\ resp.v.status = 400
        /\ resp.v.error = "Input data must contain 'description' field"

\* the number of input elements with a description field
DescriptionCount(d) ==
    IF d.t = "list" THEN Len(AcceptedPositions(d.v))
    ELSE IF HasDescriptionField(d) THEN 1 ELSE 0

\* C7: in every BatchResult of POST /process-json or process_json_file,
\* total_items equals the length of processed_items, and both equal the
\* number of input elements with a description field.
C7_TotalItems ==
    /\ JsonOkDone =>
          /\ resp.v.data.total_items = Len(resp.v.data.processed_items)
          /\ resp.v.data.total_items = DescriptionCount(body["data"])
    /\ CliOk =>
          /\ fileRes.v.total_items = Len(fileRes.v.processed_items)
          /\ fileRes.v.total_items = DescriptionCount(body["data"])

C7_Witness ==
    /\ JsonOkDone /\ CliOk /\ DataIsList
    /\ Len(body["data"].v) = 3
    /\ resp.v.data.total_items = 2
    /\ fileRes.v.total_items = 2

NoSuppliedIds(items) ==
    \A i \in 1..Len(items) : items[i].t = "obj" => "id" \notin DOMAIN items[i].v

StrictlyIncreasing(ids) ==
    \A j, k \in 1..Len(ids) : j < k => (ids[j].t = "num" /\ ids[k].t = "num" /\ ids[j].v < ids[k].v)

\* C10: when no element of a list input supplies its own id, the ids of the
\* records are pairwise distinct and strictly increasing in output order, in
\* POST /process-json and in process_json_file.
C10_FallbackIdsIncrease ==
    (DataIsList /\ NoSuppliedIds(body["data"].v)) =>
        /\ JsonOkDone => StrictlyIncreasing(IdsOf(resp.v.data.processed_items))
        /\ CliOk => StrictlyIncreasing(IdsOf(fileRes.v.processed_items))

C10_Witness ==
    /\ DataIsList /\ NoSuppliedIds(body["data"].v)
    /\ JsonOkDone /\ CliOk
    /\ Len(resp.v.data.processed_items) = 3
    /\ Len(fileRes.v.processed_items) = 3

\* C10, second half: a supplied id equal to the fallback id of another
\* element stays in the output of POST /process-json next to it.
C10_SuppliedIdCollides ==
    /\ JsonOkDone /\ DataIsList
    /\ \E j, k \in 1..Len(resp.v.data.processed_items) :
          /\ j # k
          /\ resp.v.data.processed_items[j]["id"] = resp.v.data.processed_items[k]["id"]
          /\ resp.v.data.processed_items[j]["original_id"].t = "null"
          /\ resp.v.data.processed_items[k]["original_id"].t # "null"

----------------------------------------------------------------------------
(* Claim about the sanitizer *)

\* C8: remove_emojis_and_special_chars is idempotent: sanitizing the
\* sanitized text returns it unchanged, and each of the three steps applied
\* to the sanitized text removes nothing more.
C8_SanitizeIdempotent ==
    sanOut.t = "str" =>
        /\ remove_emojis_and_special_chars(sanOut.v) = sanOut.v
        /\ DropSymbols(sanOut.v) = sanOut.v
        /\ DropSpecial(sanOut.v) = sanOut.v
        /\ CollapseWhitespace(sanOut.v) = sanOut.v

\* a text with a symbol, a special character and whitespace to collapse was
\* sanitized, and something is left of it
C8_Witness ==
    /\ sanOut.t = "str"
    /\ \E i \in 1..Len(sanIn) : sanIn[i] = "$"
    /\ \E i \in 1..Len(sanIn) : sanIn[i] = "@"
    /\ \E i \in 1..Len(sanIn) : sanIn[i] = "\t"
    /\ sanOut.v = <<"a">>

----------------------------------------------------------------------------
(* Specification of the summarization fallback: batches of texts around the *)
(* fallback's limit, with the external summarizer failing on some of them.  *)

LongText(n) == [i \in 1..n |-> IF i % 3 = 0 THEN "b" ELSE "a"]

LongLengths ==
    {0, FallbackLimit + 50} \cup ((FallbackLimit - Margin)..(FallbackLimit + Margin))

LongTexts == {LongText(n) : n \in LongLengths}

LongItems == {Obj(Put(EmptyObj, "description", Str(x))) : x \in LongTexts}

LongLists == UNION {[1..n -> LongItems] : n \in 0..MaxLongItems}

InitSummarize ==
    /\ body \in {Put(EmptyObj, "data", Lst(q)) : q \in LongLists}
    /\ lsaRaises \in {{}, LongTexts} \cup {{x} : x \in LongTexts}
    /\ resp = None
    /\ calls = <<>>
    /\ fileRes = None
    /\ fs = Put(NoFiles, "input.json", JsonDoc(body["data"]))
    /\ SanitizerIdle /\ UploadIdle

SpecSummarize == InitSummarize /\ [][NextBatch]_vars

\* the fallback's result for a text, stated by its characters
IsFallbackOf(summary, text) ==
    IF Len(text) <= 200
    THEN summary = text
    ELSE /\ Len(summary) = 203
         /\ \A i \in 1..200 : summary[i] = text[i]
         /\ \A i \in 201..203 : summary[i] = "."

FallbackEverywhere(records) ==
    \A k \in 1..Len(records) :
        records[k]["cleaned_text"] \in lsaRaises =>
            IsFallbackOf(records[k]["summary"], records[k]["cleaned_text"])

\* C9: summarize_text never raises: when the external summarizer fails it
\* returns the first 200 characters followed by "..." for a text longer than
\* 200 characters and the text unchanged otherwise; so a failing item never
\* aborts the processing of the other items of a batch.
C9_FallbackNeverRaises ==
    /\ JsonDone =>
          /\ resp.v.status = 200
          /\ Len(resp.v.data.processed_items) = Len(body["data"].v)
          /\ FallbackEverywhere(resp.v.data.processed_items)
    /\ fileRes.t # "none" =>
          /\ CliOk
          /\ Len(fileRes.v.processed_items) = Len(body["data"].v)
          /\ FallbackEverywhere(fileRes.v.processed_items)

\* a batch of two: the summarizer failed on the 250-character text, whose
\* summary has 203 characters, and not on the other item
C9_Witness ==
    /\ JsonOkDone /\ CliOk
    /\ Len(resp.v.data.processed_items) = 2
    /\ resp.v.data.processed_items[1]["cleaned_text"] \in lsaRaises
    /\ resp.v.data.processed_items[1]["character_count_cleaned"] = 250
    /\ resp.v.data.processed_items[1]["character_count_summary"] = 203
    /\ resp.v.data.processed_items[2]["cleaned_text"] \notin lsaRaises

----------------------------------------------------------------------------
(* POST /upload-json: upload_json_file, one step per file-system call.  The  *)
(* server handles requests in threads of one process, which share the        *)
(* working directory.  process_json_file runs inside the handler, so its     *)
(* read and its write are steps of the request too.                          *)

Requests == 1..NumRequests

OutputName == "temp_output.json"

\* line 263: file.filename.endswith('.json')
EndsWithJson(filename) == filename \in {"a.json", "b.json", "output.json"}

\* line 265: f"temp_{file.filename}"
TempName(filename) ==
    CASE filename = "a.json"      -> "temp_a.json"
      [] filename = "b.json"      -> "temp_b.json"
      [] filename = "output.json" -> "temp_output.json"
      [] filename = "a.txt"       -> "temp_a.txt"
      [] OTHER                    -> "temp_"

Remove(files, name) == [n \in (DOMAIN files) \ {name} |-> files[n]]

Garbage == [kind |-> "garbage"]

DocA == Obj(Put(EmptyObj, "description", Str(<<"a", "$">>)))

DocB == Lst(<<Obj(Put(EmptyObj, "description", Str(<<"b">>)))>>)

\* a description holding a lone surrogate (the JSON text "\ud800")
DocSurrogate == Obj(Put(EmptyObj, "description", Str(<<"S">>)))

UploadNames == {"", "a.txt", "a.json", "b.json", "output.json"}

UploadContents == {JsonDoc(DocA), JsonDoc(DocB), JsonDoc(DocSurrogate), Garbage}

Uploads ==
    {[t |-> "nofile"]} \cup
    {[t |-> "file", filename |-> f, content |-> c] : f \in UploadNames, c \in UploadContents}

Temp(r) == TempName(upload[r].filename)

Respond(r, response) ==
    /\ uresp' = [uresp EXCEPT ![r] = response]
    /\ pc' = [pc EXCEPT ![r] = "done"]

Goto(r, label) == pc' = [pc EXCEPT ![r] = label] /\ UNCHANGED uresp

InitUpload ==
    /\ fs = NoFiles
    /\ pc = [r \in Requests |-> "idle"]
    /\ upload = [r \in Requests |-> None]
    /\ result = [r \in Requests |-> None]
    /\ outputData = [r \in Requests |-> None]
    /\ uresp = [r \in Requests |-> None]
    /\ SanitizerIdle /\ BatchIdle

BatchVars == <<sanIn, sanOut, body, lsaRaises, resp, calls, fileRes>>

\* lines 249-263 and 299-302: the request arrives and its file field is checked
Receive(r) ==
    /\ pc[r] = "idle"
    /\ \E u \in Uploads :
          /\ upload' = [upload EXCEPT ![r] = u]
          /\ IF u.t = "nofile"
             THEN Respond(r, BadRequest("No file uploaded"))
             ELSE IF u.filename = ""
             THEN Respond(r, BadRequest("No file selected"))
             ELSE IF EndsWithJson(u.filename)
             THEN Goto(r, "save")
             ELSE Respond(r, BadRequest("Please upload a valid JSON file"))
    /\ UNCHANGED <<BatchVars, fs, result, outputData>>

\* line 266: file.save(temp_filename)
Save(r) ==
    /\ pc[r] = "save"
    /\ fs' = Put(fs, Temp(r), upload[r].content)
    /\ Goto(r, "process_read")
    /\ UNCHANGED <<BatchVars, upload, result, outputData>>

\* line 270, process_json_file lines 75-104: read the staged file and build
\* output_data; any exception makes process_json_file return None
ProcessRead(r) ==
    /\ pc[r] = "process_read"
    /\ LET p == ReadAndProcess(fs, Temp(r))
       IN  IF p.raised
           THEN result' = [result EXCEPT ![r] = None] /\ Goto(r, "else_exists")
           ELSE /\ result' = [result EXCEPT ![r] = [t |-> "ok", v |-> p.value]]
                /\ Goto(r, "process_write")
    /\ UNCHANGED <<BatchVars, fs, upload, outputData>>

\* process_json_file lines 107-125: write temp_output.json and return
ProcessWrite(r) ==
    /\ pc[r] = "process_write"
    /\ LET w == WriteOutput(fs, OutputName, result[r].v)
       IN  /\ fs' = w.fs
           /\ IF w.raised
              THEN result' = [result EXCEPT ![r] = None] /\ Goto(r, "else_exists")
              ELSE UNCHANGED result /\ Goto(r, "read_output")
    /\ UNCHANGED <<BatchVars, upload, outputData>>

\* lines 272-275: result is truthy; open temp_output.json and json.load it
ReadOutput(r) ==
    /\ pc[r] = "read_output"
    /\ IF OutputName \in DOMAIN fs /\ fs[OutputName].kind = "json"
       THEN /\ outputData' = [outputData EXCEPT ![r] = fs[OutputName].value]
            /\ Goto(r, "remove_input")
       ELSE UNCHANGED outputData /\ Goto(r, "except_exists")
    /\ UNCHANGED <<BatchVars, fs, upload, result>>

\* line 278: os.remove(temp_filename)
RemoveInput(r) ==
    /\ pc[r] = "remove_input"
    /\ IF Temp(r) \in DOMAIN fs
       THEN fs' = Remove(fs, Temp(r)) /\ Goto(r, "remove_output")
       ELSE UNCHANGED fs /\ Goto(r, "except_exists")
    /\ UNCHANGED <<BatchVars, upload, result, outputData>>

\* lines 279-284: os.remove("temp_output.json"), then the 200 response
RemoveOutput(r) ==
    /\ pc[r] = "remove_output"
    /\ IF OutputName \in DOMAIN fs
       THEN /\ fs' = Remove(fs, OutputName)
            /\ Respond(r, [status |-> 200, success |-> TRUE, data |-> outputData[r]])
       ELSE UNCHANGED fs /\ Goto(r, "except_exists")
    /\ UNCHANGED <<BatchVars, upload, result, outputData>>

\* line 287: result is None; os.path.exists(temp_filename)
ElseExists(r) ==
    /\ pc[r] = "else_exists"
    /\ IF Temp(r) \in DOMAIN fs
       THEN Goto(r, "else_remove")
       ELSE Respond(r, ServerError("Failed to process the uploaded file"))
    /\ UNCHANGED <<BatchVars, fs, upload, result, outputData>>

\* lines 288-292: os.remove(temp_filename), then the 500 response
ElseRemove(r) ==
    /\ pc[r] = "else_remove"
    /\ IF Temp(r) \in DOMAIN fs
       THEN /\ fs' = Remove(fs, Temp(r))
            /\ Respond(r, ServerError("Failed to process the uploaded file"))
       ELSE UNCHANGED fs /\ Goto(r, "except_exists")
    /\ UNCHANGED <<BatchVars, upload, result, outputData>>

\* lines 294-296: the except clause; os.path.exists(temp_filename)
ExceptExists(r) ==
    /\ pc[r] = "except_exists"
    /\ IF Temp(r) \in DOMAIN fs
       THEN Goto(r, "except_remove")
       ELSE Respond(r, ServerError("Upload processing failed"))
    /\ UNCHANGED <<BatchVars, fs, upload, result, outputData>>

\* lines 297-298 and 304-307: os.remove(temp_filename) and raise e; either
\* exception reaches the outer except clause
ExceptRemove(r) ==
    /\ pc[r] = "except_remove"
    /\ fs' = IF Temp(r) \in DOMAIN fs THEN Remove(fs, Temp(r)) ELSE fs
    /\ Respond(r, ServerError("Upload processing failed"))
    /\ UNCHANGED <<BatchVars, upload, result, outputData>>

upload_json_file(r) ==
    \/ Receive(r)
    \/ Save(r)
    \/ ProcessRead(r)
    \/ ProcessWrite(r)
    \/ ReadOutput(r)
    \/ RemoveInput(r)
    \/ RemoveOutput(r)
    \/ ElseExists(r)
    \/ ElseRemove(r)
    \/ ExceptExists(r)
    \/ ExceptRemove(r)

NextUpload == \E r \in Requests : upload_json_file(r)

SpecUpload == InitUpload /\ [][NextUpload]_vars

\* the same server when only one request ever arrives
SpecUploadAlone == InitUpload /\ [][upload_json_file(1)]_vars

----------------------------------------------------------------------------
(* Claims about POST /upload-json *)

Staged(r) == upload[r].t = "file" /\ EndsWithJson(upload[r].filename)

\* no request is being handled
Quiescent == \A r \in Requests : pc[r] \in {"idle", "done"}

\* C1: once a POST /upload-json request that staged a file has returned its
\* response, neither temp_<filename> nor temp_output.json exists on disk,
\* whatever the outcome.  Stated for the moments when no other request is
\* being handled, so that a file found is one a finished request left.
C1_TempFilesRemoved ==
    Quiescent =>
        \A r \in Requests :
            (pc[r] = "done" /\ Staged(r)) =>
                /\ Temp(r) \notin DOMAIN fs
                /\ OutputName \notin DOMAIN fs

\* the request succeeds when the server handles it alone
SucceedsAlone(u) ==
    /\ u.t = "file"
    /\ EndsWithJson(u.filename)
    /\ TempName(u.filename) # OutputName
    /\ u.content.kind = "json"
    /\ ~FileCore(u.content.value).raised
    /\ Encodable(FileCore(u.content.value).value)

\* C2: under every interleaving of simultaneous POST /upload-json requests,
\* each request that would succeed when run alone still succeeds, and the
\* data it returns is the result of processing its own uploaded file.
C2_NoInterference ==
    \A r \in Requests :
        (pc[r] = "done" /\ SucceedsAlone(upload[r])) =>
            /\ uresp[r].status = 200
            /\ uresp[r].data = Obj(FileCore(upload[r].content.value).value)

\* a request answered 200 with the data of another request's file
C2_ForeignData ==
    \E r \in Requests :
        /\ pc[r] = "done" /\ SucceedsAlone(upload[r])
        /\ uresp[r].status = 200
        /\ uresp[r].data # Obj(FileCore(upload[r].content.value).value)

====
